---- MODULE Spec2Model ----
(***************************************************************************)
(* Model of flash.py: discovery of the RPI-RP2 bootloader volume, the      *)
(* 1200-baud touch of serial ports, the scan over the registry and the     *)
(* COM range, the firmware copy and the serial monitor.                    *)
(***************************************************************************)
EXTENDS Integers, Sequences, FiniteSets, TLC

\* ------------------------------------------------------------------------
\* Program constants (flash.py:12-20)
\* ------------------------------------------------------------------------
serial_baudrate == 115200
partitionName == "RPI-RP2"
initComPort == 1
maxComPorts == 15
comAutoScan == TRUE

\* ------------------------------------------------------------------------
\* Bounds of the environment the program is run in
\* ------------------------------------------------------------------------
MaxVolumes == 2
MaxRegistry == 2
MaxFindVolumes == 3

\* Python's None, and the marker of an exception leaving a call
None == "None"
Raise == "Raise"

\* win32api.GetVolumeInformation raising for a volume (e.g. an empty drive)
LabelError == "<label query fails>"

\* Volume labels the operating system may report: the target label and a case
\* variant of it, or no label at all because the query raises
Labels == {"RPI-RP2", "rpi-rp2", LabelError}

\* partition.device of the i-th mounted volume
DeviceNames == <<"D:\\", "E:\\", "F:\\", "G:\\", "H:\\">>

\* psutil.disk_partitions(): the labels of the mounted volumes, in
\* enumeration order
VolumeLists == UNION {[1..n -> Labels] : n \in 0..MaxVolumes}

\* The labels and the volume lists handed to a lone find_rpi_rp2_drive call:
\* the labels above and a proper prefix of the target label
FindLabels == Labels \cup {"RPI-RP"}
FindLists == UNION {[1..n -> FindLabels] : n \in 0..MaxFindVolumes}

\* Values under HARDWARE\DEVICEMAP\SERIALCOMM
\* in enumeration order; the key may be missing
RegistryNames == <<"COM3", "COM5", "COM20", "COM21">>
Unavailable == <<"<no registry key>">>
Registries ==
    {Unavailable} \cup {SubSeq(RegistryNames, 1, n) : n \in 0..MaxRegistry}

\* Content of the shelve file at startup
NoFile == "<no file>"
NoKey == "<no key>"
StoredPorts == {"COM3", "COM9"}

\* The port the target device answers on when it runs its firmware
DevicePort == "COM3"

\* exit status of the process while it is still running
Running == -1

VARIABLES
    pc,            \* position of main
    db,            \* the shelve file flash_partition_shelve
    registry,      \* the SERIALCOMM registry key
    argc,          \* len(sys.argv)
    mounted,       \* volume list handed to a lone find_rpi_rp2_drive call
    startup,       \* outcome of the volume check at startup
    lastKnownPort, \* value read from the store at startup
    comPort,       \* main's comPort
    partition,     \* main's partition
    data,          \* main's data: <<>> for None, else <<port, partition>>
    scan,          \* part of wait_for_device_reconnect last entered
    i,             \* registry index of wait_for_device_reconnect
    port,          \* range index of wait_for_device_reconnect
    waitStart,     \* Len(touched) when wait_for_device_reconnect was entered
    touched,       \* ports opened at 1200 baud, in order
    validated,     \* ports for which get_com_and_partion returned a pair
    lastCall,      \* steps of the last get_com_and_partion call, in order
    lastSeen,      \* labels read by the last find_rpi_rp2_drive call, in order
    lastFind,      \* result of the last find_rpi_rp2_drive call
    flashes,       \* number of copyFile calls
    lastFlash,     \* the last copyFile call
    copies,        \* number of shutil.copy calls
    monitors,      \* number of read_com calls
    lastMon,       \* the last read_com call
    lastRead,      \* outcome of the last pass of the read loop
    stepErrs,      \* errors met by the last step, each printed or not
    dbReads,       \* reads of the store
    dbWrites,      \* writes of the store
    exitCode       \* exit status of the process

vars == <<pc, db, registry, argc, mounted, startup, stepErrs, lastKnownPort,
          comPort, partition, data,
          scan, i, port, waitStart, touched, validated, lastCall, lastSeen,
          lastFind, flashes, lastFlash, copies, monitors, lastMon, lastRead,
          dbReads, dbWrites, exitCode>>

envVars == <<registry, argc, mounted>>
waitVars == <<scan, i, port, waitStart>>
probeVars == <<touched, validated, lastCall>>
findVars == <<lastSeen, lastFind>>
flashVars == <<flashes, lastFlash, copies>>
monVars == <<monitors, lastMon, lastRead>>
storeVars == <<db, dbReads, dbWrites>>

\* ------------------------------------------------------------------------
\* Pure functions
\* ------------------------------------------------------------------------

\* f'COM{port - 1}': the ports numbered from zero
ComNameZeroBased(n) == "COM" \o ToString(n - 1)

\* f'COM{port}'
ComName(n) == "COM" \o ToString(n)

\* The loop of find_rpi_rp2_drive comparing the labels without regard to case
RECURSIVE ScanVolumesNoCase(_, _)
ScanVolumesNoCase(vols, k) ==
    IF k > Len(vols) THEN [found |-> None, seen |-> vols]
    ELSE IF vols[k] = LabelError
         THEN [found |-> Raise, seen |-> SubSeq(vols, 1, k)]
    ELSE IF vols[k] \in {"RPI-RP2", "rpi-rp2"}
         THEN [found |-> DeviceNames[k], seen |-> SubSeq(vols, 1, k)]
    ELSE ScanVolumesNoCase(vols, k + 1)

\* The loop of find_rpi_rp2_drive from the k-th mounted volume on: the value
\* returned (Raise when GetVolumeInformation raises) and the labels read
RECURSIVE ScanVolumes(_, _)
ScanVolumes(vols, k) ==
    IF k > Len(vols) THEN [found |-> None, seen |-> vols]
    ELSE IF vols[k] = LabelError
         THEN [found |-> Raise, seen |-> SubSeq(vols, 1, k)]
    ELSE IF partitionName = vols[k]
         THEN [found |-> DeviceNames[k], seen |-> SubSeq(vols, 1, k)]
    ELSE ScanVolumes(vols, k + 1)

\* find_rpi_rp2_drive(): the device of the first volume whose label is the
\* target label, None when there is none, Raise when a label query raises
\* before a match
find_rpi_rp2_drive(vols) == ScanVolumes(vols, 1).found

\* The labels find_rpi_rp2_drive read, in order
Queried(vols) == ScanVolumes(vols, 1).seen

\* The try/except of get_com_and_partion with the sleep left out
OpenStepsNoSleep(open) ==
    IF open = "ok" THEN <<"open">> ELSE <<"open_raised">>

\* The try/except of get_com_and_partion: what happens around the open
OpenSteps(open) ==
    IF open = "ok" THEN <<"open">> ELSE <<"open_raised", "sleep">>

\* get_com_and_partion(comPort): the steps made and the value returned
get_com_and_partion(p, open, vols) ==
    LET found == find_rpi_rp2_drive(vols)
    IN  [steps  |-> OpenSteps(open) \o <<"find">>,
         found  |-> found,
         raised |-> found = Raise,
         data   |-> IF found # Raise /\ found # None
                    THEN <<p, found>> ELSE <<>>]

\* copyFile(partition) without the os.path.exists test: the copy of a missing
\* file raises and is reported as a copy error
copyFileNoExistsCheck(n, exists, copyOk) ==
    IF n > 1
    THEN IF exists /\ copyOk THEN "copied" ELSE "copy_error"
    ELSE "no_arg"

\* copyFile(partition): its outcome
copyFile(n, exists, copyOk) ==
    IF n > 1
    THEN IF exists
         THEN IF copyOk THEN "copied" ELSE "copy_error"
         ELSE "not_found"
    ELSE "no_arg"

\* ------------------------------------------------------------------------
\* Initial state
\* ------------------------------------------------------------------------
\* Everything but the position, the environment and the volume list
InitLocals ==
    /\ lastKnownPort = None
    /\ comPort = None
    /\ partition = None
    /\ data = <<>>
    /\ scan = "none"
    /\ i = 0
    /\ port = initComPort
    /\ waitStart = 0
    /\ touched = <<>>
    /\ validated = {}
    /\ lastCall = <<>>
    /\ lastSeen = <<>>
    /\ lastFind = None
    /\ flashes = 0
    /\ lastFlash = [partition |-> None, missing |-> FALSE, result |-> "none"]
    /\ copies = 0
    /\ monitors = 0
    /\ lastMon = [port |-> None, path |-> "none", opened |-> FALSE,
                  validated |-> FALSE, partition |-> None]
    /\ lastRead = "none"
    /\ dbReads = 0
    /\ dbWrites = 0
    /\ exitCode = Running
    /\ startup = "none"
    /\ stepErrs = {}

Init ==
    /\ pc = "main_load"
    /\ db \in {NoFile, NoKey} \cup StoredPorts
    /\ registry \in Registries
    /\ argc \in {1, 2}
    /\ mounted = <<>>
    /\ InitLocals

\* ------------------------------------------------------------------------
\* Shared steps
\* ------------------------------------------------------------------------

\* The handlers with the print(e) of line 140 left out
PrintsNoMonitor(handler) ==
    handler \in {"copy", "image", "decode", "uncaught"}

\* Whether the except clause (or the else branch) that handles an error
\* prints a line: touch is lines 47-49, registry lines 78-79, copy lines
\* 109-111, image lines 112-113, exit lines 133-135, decode lines 136-137,
\* monitor lines 138-140; an uncaught exception prints its traceback
Prints(handler) ==
    handler \in {"copy", "image", "decode", "monitor", "uncaught"}

\* An error of some kind met in a step and the way it was handled
Err(kind, handler) ==
    [kind |-> kind, handler |-> handler, printed |-> Prints(handler)]

\* The errors of one get_com_and_partion call; labelHandler says where an
\* exception of the volume check ends
ProbeErrs(open, raised, labelHandler) ==
    (IF open = "ok" THEN {} ELSE {Err("port_open", "touch")})
    \cup (IF raised THEN {Err("label_query", labelHandler)} ELSE {})

\* The errors of one copyFile call
FlashErrs(res) ==
    IF res = "copy_error" THEN {Err("copy", "copy")}
    ELSE IF res = "not_found" THEN {Err("image_missing", "image")}
    ELSE {}

\* The errors of the open at the head of read_com
MonitorErrs(open) ==
    IF open = "ok" THEN {} ELSE {Err("monitor_open", "monitor")}

\* An uncaught exception ends the process with a traceback
Crash ==
    /\ pc' = "crashed"
    /\ exitCode' = 1

\* The effect of one get_com_and_partion(p) call on the recorded state
Probe(p, open, vols) ==
    LET r == get_com_and_partion(p, open, vols)
    IN  /\ touched' = Append(touched, p)
        /\ lastCall' = r.steps
        /\ lastSeen' = Queried(vols)
        /\ lastFind' = r.found
        /\ validated' = IF r.data # <<>> THEN validated \cup {p} ELSE validated

\* The effect of one copyFile(part) call on the recorded state
Flash(part, exists, copyOk) ==
    LET res == copyFile(argc, exists, copyOk)
    IN  /\ flashes' = flashes + 1
        /\ lastFlash' = [partition |-> part,
                         missing |-> (argc > 1 /\ ~exists),
                         result |-> res]
        /\ copies' = IF res \in {"copied", "copy_error"}
                     THEN copies + 1 ELSE copies
        /\ stepErrs' = FlashErrs(res)

\* The effect of the open at the head of read_com(p)
Monitor(p, path, open) ==
    /\ monitors' = monitors + 1
    /\ lastMon' = [port |-> p, path |-> path, opened |-> (open = "ok"),
                   validated |-> (p \in validated), partition |-> partition]
    /\ stepErrs' = MonitorErrs(open)

\* ------------------------------------------------------------------------
\* main
\* ------------------------------------------------------------------------

\* main, lines 144-148 with the shelve opened whether the file exists or not
main_load_no_exists_check ==
    /\ pc = "main_load"
    /\ LET v == IF db \in {NoFile, NoKey} THEN None ELSE db
       IN  /\ comPort' = v
           /\ lastKnownPort' = v
    /\ dbReads' = dbReads + 1
    /\ pc' = "main_find"
    /\ stepErrs' = {}
    /\ UNCHANGED startup
    /\ UNCHANGED <<db, dbWrites, envVars, partition, data, waitVars,
                   probeVars, findVars, flashVars, monVars,
                   exitCode>>

\* main, lines 144-148: read the stored port when the file exists
main_load ==
    /\ pc = "main_load"
    /\ LET v == IF db \in {NoFile, NoKey} THEN None ELSE db
       IN  /\ comPort' = v
           /\ lastKnownPort' = v
    /\ dbReads' = IF db = NoFile THEN dbReads ELSE dbReads + 1
    /\ pc' = "main_find"
    /\ stepErrs' = {}
    /\ UNCHANGED startup
    /\ UNCHANGED <<db, dbWrites, envVars, partition, data, waitVars,
                   probeVars, findVars, flashVars, monVars,
                   exitCode>>

\* main, lines 151-160 with the test of line 152 left out
main_find_ignore_result ==
    /\ pc = "main_find"
    /\ \E vols \in VolumeLists :
         LET found == find_rpi_rp2_drive(vols)
         IN  /\ lastSeen' = Queried(vols)
             /\ lastFind' = found
             /\ startup' = IF found = Raise THEN "raised"
                            ELSE IF found # None THEN "found"
                            ELSE "not_found"
             /\ stepErrs' = IF found = Raise
                             THEN {Err("label_query", "uncaught")} ELSE {}
             /\ IF found = Raise
                THEN Crash /\ UNCHANGED partition
                ELSE /\ partition' = found
                     /\ pc' = "main_fast_copy"
                     /\ UNCHANGED exitCode
    /\ UNCHANGED <<storeVars, envVars, lastKnownPort, comPort, data,
                   waitVars, probeVars, flashVars, monVars>>

\* main, lines 151-152 and 159-160: the volume check at startup
main_find ==
    /\ pc = "main_find"
    /\ \E vols \in VolumeLists :
         LET found == find_rpi_rp2_drive(vols)
         IN  /\ lastSeen' = Queried(vols)
             /\ lastFind' = found
             /\ startup' = IF found = Raise THEN "raised"
                            ELSE IF found # None THEN "found"
                            ELSE "not_found"
             /\ stepErrs' = IF found = Raise
                             THEN {Err("label_query", "uncaught")} ELSE {}
             /\ IF found = Raise
                THEN Crash /\ UNCHANGED partition
                ELSE /\ partition' = found
                     /\ pc' = IF found # None THEN "main_fast_copy"
                              ELSE "main_revalidate"
                     /\ UNCHANGED exitCode
    /\ UNCHANGED <<storeVars, envVars, lastKnownPort, comPort, data,
                   waitVars, probeVars, flashVars, monVars>>

\* main, lines 154-158 with the test of line 157 left out: read_com is
\* called whether a port is stored or not
main_fast_copy_no_port_test ==
    /\ pc = "main_fast_copy"
    /\ \E exists \in BOOLEAN, copyOk \in BOOLEAN :
         Flash(partition, exists, copyOk)
    /\ pc' = "main_fast_monitor"
    /\ UNCHANGED <<storeVars, envVars, startup, lastKnownPort, comPort,
                   partition, data, waitVars, probeVars, findVars, monVars,
                   exitCode>>

\* main, lines 154-157: flash the volume found at startup
main_fast_copy ==
    /\ pc = "main_fast_copy"
    /\ \E exists \in BOOLEAN, copyOk \in BOOLEAN :
         Flash(partition, exists, copyOk)
    /\ pc' = IF comPort # None THEN "main_fast_monitor" ELSE "main_revalidate"
    /\ UNCHANGED <<storeVars, envVars, startup, lastKnownPort, comPort,
                   partition, data, waitVars, probeVars, findVars, monVars,
                   exitCode>>

\* main, line 158, with read_com leaving the process when the open fails
main_fast_monitor_exit_on_error ==
    /\ pc = "main_fast_monitor"
    /\ \E open \in {"ok", "raised"} :
         /\ Monitor(comPort, "fast", open)
         /\ IF open = "ok"
            THEN pc' = "read_loop" /\ UNCHANGED exitCode
            ELSE pc' = "exited" /\ exitCode' = 0
    /\ UNCHANGED <<storeVars, envVars, startup, lastKnownPort, comPort,
                   partition, data, waitVars, probeVars, findVars, flashVars,
                   lastRead>>

\* main, line 158, and read_com, lines 120-125 and 138-140: the monitor on
\* the stored port; a failed open is printed and read_com returns
main_fast_monitor ==
    /\ pc = "main_fast_monitor"
    /\ \E open \in {"ok", "raised"} :
         /\ Monitor(comPort, "fast", open)
         /\ pc' = IF open = "ok" THEN "read_loop" ELSE "main_revalidate"
    /\ UNCHANGED <<storeVars, envVars, startup, lastKnownPort, comPort,
                   partition, data, waitVars, probeVars, findVars, flashVars,
                   lastRead, exitCode>>

\* main, lines 163-167: touch the stored port and check for the volume
main_revalidate ==
    /\ pc = "main_revalidate"
    /\ IF comPort # None
       THEN \E open \in {"ok", "raised"}, vols \in VolumeLists :
              LET r == get_com_and_partion(comPort, open, vols)
              IN  /\ Probe(comPort, open, vols)
                  /\ stepErrs' = ProbeErrs(open, r.raised, "uncaught")
                  /\ IF r.raised
                     THEN Crash /\ UNCHANGED data
                     ELSE /\ data' = r.data
                          /\ pc' = IF r.data # <<>> THEN "main_found"
                                   ELSE "wait_enter"
                          /\ UNCHANGED exitCode
       ELSE /\ data' = <<>>
            /\ pc' = "wait_enter"
            /\ stepErrs' = {}
            /\ UNCHANGED <<probeVars, findVars, exitCode>>
    /\ UNCHANGED <<storeVars, envVars, startup, lastKnownPort, comPort,
                   partition, waitVars, flashVars, monVars>>

\* ------------------------------------------------------------------------
\* wait_for_device_reconnect
\* ------------------------------------------------------------------------

\* range(initComPort, maxComPorts): the last port left out
RangeLastExclusive == maxComPorts - 1

\* The last port of range(initComPort, maxComPorts + 1)
RangeLast == maxComPorts

\* lines 61-66 and 78-79 with the registry index starting at 1
wait_enter_skip_first ==
    /\ pc = "wait_enter"
    /\ waitStart' = Len(touched)
    /\ i' = 1
    /\ port' = initComPort
    /\ IF comAutoScan /\ registry # Unavailable
       THEN /\ scan' = "registry"
            /\ pc' = "wait_registry"
            /\ stepErrs' = {}
       ELSE /\ scan' = "range"
            /\ pc' = "wait_range"
            /\ stepErrs' = IF comAutoScan
                           THEN {Err("registry_unavailable", "registry")}
                           ELSE {}
    /\ UNCHANGED <<storeVars, envVars, startup, lastKnownPort, comPort,
                   partition, data, probeVars, findVars, flashVars, monVars,
                   exitCode>>

\* lines 61-66 and 78-79: open the registry key; a failure is passed over
wait_enter ==
    /\ pc = "wait_enter"
    /\ waitStart' = Len(touched)
    /\ i' = 0
    /\ port' = initComPort
    /\ IF comAutoScan /\ registry # Unavailable
       THEN /\ scan' = "registry"
            /\ pc' = "wait_registry"
            /\ stepErrs' = {}
       ELSE /\ scan' = "range"
            /\ pc' = "wait_range"
            /\ stepErrs' = IF comAutoScan
                           THEN {Err("registry_unavailable", "registry")}
                           ELSE {}
    /\ UNCHANGED <<storeVars, envVars, startup, lastKnownPort, comPort,
                   partition, data, probeVars, findVars, flashVars, monVars,
                   exitCode>>

\* lines 67-79 with a break in place of the return at line 73
wait_registry_break_on_found ==
    /\ pc = "wait_registry"
    /\ IF i >= Len(registry)
       THEN /\ scan' = "range"
            /\ pc' = "wait_range"
            /\ stepErrs' = {}
            /\ UNCHANGED <<i, data, probeVars, findVars>>
       ELSE \E open \in {"ok", "raised"}, vols \in VolumeLists :
              LET p == registry[i + 1]
                  r == get_com_and_partion(p, open, vols)
              IN  /\ Probe(p, open, vols)
                  /\ stepErrs' = ProbeErrs(open, r.raised, "registry")
                  /\ IF r.raised
                     THEN /\ scan' = "range"
                          /\ pc' = "wait_range"
                          /\ UNCHANGED <<i, data>>
                     ELSE IF r.data # <<>>
                     THEN /\ data' = r.data
                          /\ scan' = "range"
                          /\ pc' = "wait_range"
                          /\ UNCHANGED i
                     ELSE /\ i' = i + 1
                          /\ UNCHANGED <<data, scan, pc>>
    /\ UNCHANGED <<storeVars, envVars, startup, lastKnownPort, comPort,
                   partition, port, waitStart, flashVars, monVars, exitCode>>

\* lines 67-79: one pass of the loop over the registry values
wait_registry ==
    /\ pc = "wait_registry"
    /\ IF i >= Len(registry)
       THEN \* EnumValue raises OSError: break
            /\ scan' = "range"
            /\ pc' = "wait_range"
            /\ stepErrs' = {}
            /\ UNCHANGED <<i, data, probeVars, findVars>>
       ELSE \E open \in {"ok", "raised"}, vols \in VolumeLists :
              LET p == registry[i + 1]
                  r == get_com_and_partion(p, open, vols)
              IN  /\ Probe(p, open, vols)
                  /\ stepErrs' = ProbeErrs(open, r.raised, "registry")
                  /\ IF r.raised
                     THEN \* caught by the outer except: pass
                          /\ scan' = "range"
                          /\ pc' = "wait_range"
                          /\ UNCHANGED <<i, data>>
                     ELSE IF r.data # <<>>
                     THEN /\ data' = r.data
                          /\ pc' = "main_after_wait"
                          /\ UNCHANGED <<i, scan>>
                     ELSE /\ i' = i + 1
                          /\ UNCHANGED <<data, scan, pc>>
    /\ UNCHANGED <<storeVars, envVars, startup, lastKnownPort, comPort,
                   partition, port, waitStart, flashVars, monVars, exitCode>>

\* lines 82-89: one pass of the loop over the COM range
wait_range ==
    /\ pc = "wait_range"
    /\ IF port > RangeLast
       THEN \* line 89
            /\ data' = <<>>
            /\ pc' = "main_after_wait"
            /\ stepErrs' = {}
            /\ UNCHANGED <<port, probeVars, findVars, storeVars,
                           exitCode>>
       ELSE \E open \in {"ok", "raised"}, vols \in VolumeLists :
              LET p == ComName(port)
                  r == get_com_and_partion(p, open, vols)
              IN  /\ Probe(p, open, vols)
                  /\ IF r.raised
                     THEN /\ Crash
                          /\ stepErrs' = ProbeErrs(open, TRUE, "uncaught")
                          /\ UNCHANGED <<data, port, storeVars>>
                     ELSE IF r.data # <<>>
                     THEN \* lines 86-88: the write may raise
                          \/ /\ db' = r.data[1]
                             /\ dbWrites' = dbWrites + 1
                             /\ data' = r.data
                             /\ pc' = "main_after_wait"
                             /\ stepErrs' = ProbeErrs(open, FALSE, "uncaught")
                             /\ UNCHANGED <<port, dbReads, exitCode>>
                          \/ /\ Crash
                             /\ stepErrs' =
                                  ProbeErrs(open, FALSE, "uncaught")
                                  \cup {Err("store_write", "uncaught")}
                             /\ UNCHANGED <<data, port, storeVars>>
                     ELSE /\ port' = port + 1
                          /\ stepErrs' = ProbeErrs(open, FALSE, "uncaught")
                          /\ UNCHANGED <<data, pc, storeVars, exitCode>>
    /\ UNCHANGED <<envVars, startup, lastKnownPort, comPort, partition, scan,
                   i, waitStart, flashVars, monVars>>

\* ------------------------------------------------------------------------
\* main, after the wait
\* ------------------------------------------------------------------------

\* main, lines 171-176 with the copyFile call of line 174 left out
main_found_no_flash ==
    /\ pc \in {"main_found", "main_after_wait"}
    /\ data # <<>>
    /\ comPort' = data[1]
    /\ partition' = data[2]
    /\ stepErrs' = {}
    /\ pc' = "main_final_monitor"
    /\ UNCHANGED <<storeVars, envVars, startup, lastKnownPort, data,
                   waitVars, probeVars, findVars, flashVars, monVars,
                   exitCode>>

\* main, lines 171-174: flash the volume of the pair found
main_found ==
    /\ pc \in {"main_found", "main_after_wait"}
    /\ data # <<>>
    /\ comPort' = data[1]
    /\ partition' = data[2]
    /\ \E exists \in BOOLEAN, copyOk \in BOOLEAN :
         Flash(data[2], exists, copyOk)
    /\ pc' = "main_final_monitor"
    /\ UNCHANGED <<storeVars, envVars, startup, lastKnownPort, data,
                   waitVars, probeVars, findVars, monVars, exitCode>>

\* main, lines 176-178: the monitor on the port found; when its open fails
\* read_com returns, the failure message is printed and main returns
main_final_monitor ==
    /\ pc = "main_final_monitor"
    /\ \E open \in {"ok", "raised"} :
         /\ Monitor(comPort, "final", open)
         /\ IF open = "ok"
            THEN pc' = "read_loop" /\ UNCHANGED exitCode
            ELSE pc' = "exited" /\ exitCode' = 0
    /\ UNCHANGED <<storeVars, envVars, startup, lastKnownPort, comPort,
                   partition, data, waitVars, probeVars, findVars, flashVars,
                   lastRead>>

\* main, lines 171 and 178 with sys.exit(1) after the failure message
main_fail_exit_nonzero ==
    /\ pc = "main_after_wait"
    /\ data = <<>>
    /\ pc' = "exited"
    /\ exitCode' = 1
    /\ stepErrs' = {}
    /\ UNCHANGED <<storeVars, envVars, startup, lastKnownPort, comPort,
                   partition, data, waitVars, probeVars, findVars, flashVars,
                   monVars>>

\* main, lines 171 and 178: nothing found, the failure message is printed
main_fail ==
    /\ pc = "main_after_wait"
    /\ data = <<>>
    /\ pc' = "exited"
    /\ exitCode' = 0
    /\ stepErrs' = {}
    /\ UNCHANGED <<storeVars, envVars, startup, lastKnownPort, comPort,
                   partition, data, waitVars, probeVars, findVars, flashVars,
                   monVars>>

\* ------------------------------------------------------------------------
\* read_com
\* ------------------------------------------------------------------------

\* The errors of one pass of the read loop
ReadErrs(r) ==
    IF r = "decode_error" THEN {Err("decode", "decode")}
    ELSE IF r \in {"serial_exception", "keyboard_interrupt"}
         THEN {Err(r, "exit")}
    ELSE {}

\* read_com, lines 127-137 with the loop left when a line cannot be decoded:
\* read_com returns to main
read_loop_return_on_decode_error ==
    /\ pc = "read_loop"
    /\ \E r \in {"empty", "line", "decode_error", "serial_exception",
                 "keyboard_interrupt"} :
         /\ lastRead' = r
         /\ stepErrs' = ReadErrs(r)
         /\ IF r \in {"serial_exception", "keyboard_interrupt"}
            THEN pc' = "exited" /\ exitCode' = 0
            ELSE IF r = "decode_error"
            THEN IF lastMon.path = "fast"
                 THEN pc' = "main_revalidate" /\ UNCHANGED exitCode
                 ELSE pc' = "exited" /\ exitCode' = 0
            ELSE UNCHANGED <<pc, exitCode>>
    /\ UNCHANGED <<storeVars, envVars, startup, lastKnownPort, comPort,
                   partition, data, waitVars, probeVars, findVars, flashVars,
                   monitors, lastMon>>

\* read_com, lines 127-137: one pass of the read loop
read_loop ==
    /\ pc = "read_loop"
    /\ \E r \in {"empty", "line", "decode_error", "serial_exception",
                 "keyboard_interrupt"} :
         /\ lastRead' = r
         /\ stepErrs' = ReadErrs(r)
         /\ IF r \in {"serial_exception", "keyboard_interrupt"}
            THEN pc' = "exited" /\ exitCode' = 0
            ELSE UNCHANGED <<pc, exitCode>>
    /\ UNCHANGED <<storeVars, envVars, startup, lastKnownPort, comPort,
                   partition, data, waitVars, probeVars, findVars, flashVars,
                   monitors, lastMon>>

Next ==
    \/ main_load
    \/ main_find
    \/ main_fast_copy
    \/ main_fast_monitor
    \/ main_revalidate
    \/ wait_enter
    \/ wait_registry
    \/ wait_range
    \/ main_found
    \/ main_final_monitor
    \/ main_fail
    \/ read_loop

Spec == Init /\ [][Next]_vars

\* ------------------------------------------------------------------------
\* find_rpi_rp2_drive alone
\* ------------------------------------------------------------------------

InitFind ==
    /\ pc = "find_call"
    /\ db = NoFile
    /\ registry = Unavailable
    /\ argc = 1
    /\ mounted \in FindLists
    /\ InitLocals

\* find_rpi_rp2_drive, lines 22-36, called on the volume list mounted
find_call ==
    /\ pc = "find_call"
    /\ lastFind' = find_rpi_rp2_drive(mounted)
    /\ lastSeen' = Queried(mounted)
    /\ stepErrs' = IF find_rpi_rp2_drive(mounted) = Raise
                   THEN {Err("label_query", "uncaught")} ELSE {}
    /\ pc' = "find_done"
    /\ UNCHANGED <<storeVars, envVars, startup, lastKnownPort, comPort,
                   partition, data, waitVars, probeVars, flashVars, monVars,
                   exitCode>>

NextFind == find_call

SpecFind == InitFind /\ [][NextFind]_vars

\* ------------------------------------------------------------------------
\* Properties
\* ------------------------------------------------------------------------

Last(s) == s[Len(s)]

IsPrefix(s, t) == Len(s) <= Len(t) /\ s = SubSeq(t, 1, Len(s))

\* Position of the first occurrence of step x in s, 0 when absent
Pos(s, x) ==
    IF \E k \in DOMAIN s : s[k] = x
    THEN CHOOSE k \in DOMAIN s : s[k] = x /\ \A j \in 1..(k - 1) : s[j] # x
    ELSE 0

\* The registry entries EnumValue yields
Reg == IF registry = Unavailable THEN <<>> ELSE registry

\* The ports wait_for_device_reconnect touched since it was entered
WaiterTouched == SubSeq(touched, waitStart + 1, Len(touched))

\* The names COM1..COM15, written out
RangePorts == <<"COM1", "COM2", "COM3", "COM4", "COM5", "COM6", "COM7", "COM8",
                "COM9", "COM10", "COM11", "COM12", "COM13", "COM14", "COM15">>

\* wait_for_device_reconnect has returned
WaiterReturned == pc = "main_after_wait"

\* C1 (as stated): in every get_com_and_partion call the settle delay comes
\* between the open and the volume check, whether the open succeeded or raised.
C1_SettleAlways ==
    lastCall # <<>> =>
        /\ Pos(lastCall, "sleep") > 0
        /\ Pos(lastCall, "sleep") < Pos(lastCall, "find")

\* C1 (amended): every get_com_and_partion call ends with the volume check;
\* the settle delay comes between the open and the volume check exactly when
\* the open raised, and after a successful open the check follows at once.
C1_SettleOnlyOnFailure ==
    lastCall # <<>> =>
        /\ Last(lastCall) = "find"
        /\ lastCall[1] \in {"open", "open_raised"}
        /\ (lastCall[1] = "open_raised") <=>
              (Pos(lastCall, "sleep") = 2 /\ Pos(lastCall, "find") = 3)
        /\ (lastCall[1] = "open") <=>
              (Pos(lastCall, "sleep") = 0 /\ Pos(lastCall, "find") = 2)

C1_Witness ==
    /\ Len(touched) >= 2
    /\ lastCall = <<"open_raised", "sleep", "find">>

\* C2 (as stated): wait_for_device_reconnect never returns a not-found result.
C2_NeverNotFound == WaiterReturned => data # <<>>

\* C2 (amended): wait_for_device_reconnect makes a single pass, the registry
\* entries and then COM1..COM15, and never restarts it: it returns a pair
\* only when the volume check after its last probe found the volume, and it
\* returns None once every port of the range was touched once without the
\* volume being found.
C2_SinglePass ==
    WaiterReturned =>
        IF data = <<>>
        THEN /\ lastFind = None
             /\ \E n \in 0..Len(Reg) :
                   WaiterTouched = SubSeq(Reg, 1, n) \o RangePorts
        ELSE /\ lastFind = data[2]
             /\ data[1] = Last(touched)
             /\ Len(WaiterTouched) <= Len(Reg) + Len(RangePorts)

C2_Witness ==
    /\ WaiterReturned
    /\ data = <<>>
    /\ registry = <<"COM3", "COM5">>
    /\ Len(WaiterTouched) = 17

\* C3: a pair [port, volume] exists only if the volume check made right after
\* touching that port returned a volume whose label is exactly the target
\* label; a check that found nothing or raised leaves no pair.
C3_LocationOnlyAfterExactLabel ==
    /\ data # <<>> =>
          /\ lastCall # <<>> /\ Last(lastCall) = "find"
          /\ data[1] = Last(touched)
          /\ lastSeen # <<>>
          /\ Last(lastSeen) = "RPI-RP2"
          /\ data[2] = DeviceNames[Len(lastSeen)]
          /\ data[2] = lastFind
          /\ \A k \in 1..(Len(lastSeen) - 1) : lastSeen[k] # "RPI-RP2"
    /\ lastFind \in {None, Raise} => data = <<>>

C3_Witness ==
    /\ data # <<>>
    /\ lastSeen = <<"rpi-rp2", "RPI-RP2">>
    /\ data[2] = "E:\\"

\* C4: whenever wait_for_device_reconnect returns a pair, found through the
\* registry or through the COM range, the port of the pair is the value of
\* the persisted record.
C4_FoundIsPersisted ==
    (WaiterReturned /\ data # <<>>) => db = data[1]

\* C5 (as stated): when the registry can be read and has an entry, the ports
\* wait_for_device_reconnect touches are registry entries in enumeration
\* order and no port of the COM range is touched.
C5_RangeOnlyWithoutRegistry ==
    (scan # "none" /\ Reg # <<>>) => IsPrefix(WaiterTouched, Reg)

\* C5 (amended): the COM range is probed whenever the registry pass ends
\* without returning a pair: the key is missing or empty, every entry was
\* probed without a match, or a volume check raised during the pass. With a
\* non-empty registry the ports touched are the registry entries in
\* enumeration order, followed by COM1.. in ascending order when none of
\* them yielded the volume; no port of the range is touched once a registry
\* entry yielded the volume.
C5_RangeAfterRegistry ==
    /\ pc = "wait_range" => data = <<>>
    /\ scan = "registry" =>
          /\ WaiterTouched = SubSeq(Reg, 1, Len(WaiterTouched))
          /\ Len(WaiterTouched) \in {i, i + 1}
          /\ Len(WaiterTouched) <= Len(Reg)
    /\ scan = "range" =>
          LET n == IF i = Len(Reg) THEN i ELSE i + 1
              m == Len(WaiterTouched) - n
          IN  /\ m \in 0..Len(RangePorts)
              /\ WaiterTouched = SubSeq(Reg, 1, n) \o SubSeq(RangePorts, 1, m)

C5_Witness ==
    /\ scan = "range"
    /\ registry = <<"COM3", "COM5">>
    /\ i = 2
    /\ WaiterTouched = <<"COM3", "COM5", "COM1", "COM2">>

\* C6: with a non-empty registry, when the volume is first found by the check
\* after the probe of the k-th registry entry, the ports touched by
\* wait_for_device_reconnect are exactly entries 1..k in enumeration order,
\* nothing is touched after entry k, and the pair returned holds entry k and
\* the volume found.
C6_RegistryStopsAtMatch ==
    (scan = "registry" /\ pc # "wait_registry") =>
        LET k == i + 1
        IN  /\ k <= Len(Reg)
            /\ WaiterTouched = SubSeq(Reg, 1, k)
            /\ data = <<Reg[k], lastFind>>
            /\ lastFind = DeviceNames[Len(lastSeen)]
            /\ Last(lastSeen) = "RPI-RP2"

C6_Witness ==
    /\ WaiterReturned
    /\ scan = "registry"
    /\ registry = <<"COM3", "COM5">>
    /\ WaiterTouched = <<"COM3", "COM5">>
    /\ data[1] = "COM5"

\* C7: with the registry empty or missing and the range 1..15, when the volume
\* is first found after the probe of index k, the ports touched by
\* wait_for_device_reconnect are exactly COM1..COMk, each once and in
\* ascending order, and no port above k is touched.
C7_RangeStopsAtMatch ==
    (scan = "range" /\ Reg = <<>> /\ data # <<>>) =>
        /\ port \in initComPort..maxComPorts
        /\ WaiterTouched = SubSeq(RangePorts, 1, port - initComPort + 1)
        /\ data[1] = RangePorts[port]
        /\ data[2] = lastFind

C7_Witness ==
    /\ scan = "range"
    /\ registry = Unavailable
    /\ data # <<>>
    /\ WaiterTouched = <<"COM1", "COM2", "COM3", "COM4", "COM5", "COM6", "COM7">>
    /\ pc = "read_loop"

\* The stored port is not the port of the target device
Stale == lastKnownPort \notin {None, DevicePort}

\* read_com was called on the stored port after the flash at startup
FastTried == lastMon.path = "fast" \/ monitors = 2

\* C8 (as stated): with a stale stored port, the monitor attempt on it ends
\* without the monitor running on it, and nothing is flashed or monitored
\* through that port before wait_for_device_reconnect was entered, whatever
\* the open of the port and the volume check give.
C8_StaleFallsThrough ==
    (Stale /\ FastTried) =>
        /\ ~(lastMon.path = "fast" /\ lastMon.opened)
        /\ pc \in {"main_found", "main_final_monitor"} => scan # "none"
        /\ monitors = 2 => scan # "none"

\* C8 (amended): with a stale stored port, when the open of the fast-path
\* monitor raises, read_com returns without ending the process and main
\* goes on to touch the stored port and check for the volume; it enters
\* wait_for_device_reconnect exactly when that check finds no volume, it
\* flashes and monitors through the stored port when the check finds one,
\* and the run ends when the check raises.
C8_StaleFastPathFailure ==
    [][/\ (Stale /\ pc = "main_fast_monitor" /\ ~lastMon'.opened) =>
            (pc' = "main_revalidate" /\ exitCode' = Running)
       /\ (Stale /\ FastTried /\ pc = "main_revalidate") =>
            /\ touched' = Append(touched, lastKnownPort)
            /\ (pc' = "wait_enter") <=> (lastFind' = None)
            /\ (pc' = "main_found") <=>
                  (lastFind' \notin {None, Raise}
                   /\ data' = <<lastKnownPort, lastFind'>>)
            /\ (pc' = "crashed") <=> (lastFind' = Raise)]_vars

C8_Witness ==
    /\ Stale
    /\ lastMon.path = "fast"
    /\ ~lastMon.opened
    /\ pc = "wait_enter"
    /\ touched = <<"COM9">>

\* C9 (as stated): the stored port is monitored only after it was touched in
\* this run and the volume was then found.
C9_StoredPortRevalidated ==
    (monitors > 0 /\ lastMon.port = lastKnownPort) => lastMon.validated

\* C9 (amended): the stored port is monitored only after the target volume
\* was found in this run: on the fast path after the volume check at startup
\* found it and it was flashed, the port not being touched, and otherwise
\* after the port was touched and the volume was then found.
C9_StoredPortAfterVolumeSeen ==
    (monitors > 0 /\ lastMon.port = lastKnownPort) =>
        IF lastMon.path = "fast"
        THEN /\ monitors = 1
             /\ lastMon.partition \in {DeviceNames[k] : k \in 1..MaxVolumes}
             /\ flashes >= 1
             /\ flashes = 1 => lastFlash.partition = lastMon.partition
        ELSE lastMon.validated

C9_Witness ==
    /\ monitors = 1
    /\ lastMon.path = "fast"
    /\ lastMon.port = lastKnownPort
    /\ ~lastMon.validated
    /\ touched = <<>>
    /\ pc = "read_loop"

\* C10: when the firmware image path does not exist, copyFile reports
\* not-found and makes no copy, the process goes on, and the next step is the
\* monitor on the known port: the stored port after the flash at startup
\* (when there is one), the port found after the flash of the pair found.
C10_MissingImage ==
    [][/\ (flashes' = flashes + 1 /\ lastFlash'.missing) =>
            /\ lastFlash'.result = "not_found"
            /\ copies' = copies
            /\ exitCode' = Running
            /\ IF pc = "main_fast_copy"
               THEN lastKnownPort # None =>
                      (pc' = "main_fast_monitor" /\ comPort' = lastKnownPort)
               ELSE pc' = "main_final_monitor" /\ comPort' = data[1]
       /\ (lastFlash.missing
           /\ pc \in {"main_fast_monitor", "main_final_monitor"}) =>
            /\ monitors' = monitors + 1
            /\ lastMon'.port = comPort]_vars

C10_Witness ==
    /\ flashes = 2
    /\ lastFlash.missing
    /\ copies = 0
    /\ monitors = 2
    /\ lastMon.port = data[1]
    /\ lastMon.opened

\* C11 (as stated): past startup the store has been read exactly once, and it
\* is written at most once.
C11_ReadExactlyOnce ==
    /\ pc # "main_load" => dbReads = 1
    /\ dbWrites <= 1

\* C11 (amended): the store is read at most once in a run, exactly once when
\* the store file exists and not at all when it does not, and only by the
\* first step of main, before any touch or volume check; it is written at
\* most once, with the port of the pair found.
C11_ReadAtMostOnce ==
    [][/\ (dbReads' # dbReads) =>
            /\ pc = "main_load" /\ dbReads = 0 /\ dbReads' = 1
            /\ touched = <<>> /\ startup = "none" /\ lastCall = <<>>
       /\ (pc = "main_load") => (dbReads' = IF db = NoFile THEN 0 ELSE 1)
       /\ (pc = "main_load") => (touched' = <<>> /\ startup' = "none")
       /\ (dbWrites' # dbWrites \/ db' # db) =>
            /\ dbWrites = 0 /\ dbWrites' = 1
            /\ data' # <<>> /\ db' = data'[1]
            /\ dbReads' = dbReads]_vars

C11_Witness ==
    /\ dbReads = 1
    /\ dbWrites = 1
    /\ lastKnownPort = "COM9"
    /\ db = "COM2"
    /\ pc = "read_loop"

\* C12: the read loop is entered only after the port was opened; a pass that
\* reads nothing, reads a line or fails to decode one stays in the loop, the
\* decode failure being printed; the loop is left only on a serial exception
\* or a keyboard interrupt, and then the process ends: read_com does not
\* return to main.
C12_ReadLoopExits ==
    [][/\ (pc' = "read_loop") => lastMon'.opened
       /\ (pc = "read_loop") =>
            /\ lastRead' \in {"empty", "line", "decode_error"} =>
                  (pc' = "read_loop" /\ exitCode' = Running)
            /\ lastRead' = "decode_error" =>
                  \E e \in stepErrs' : e.kind = "decode" /\ e.printed
            /\ pc' # "read_loop" =>
                  /\ lastRead' \in {"serial_exception", "keyboard_interrupt"}
                  /\ pc' = "exited"
                  /\ exitCode' # Running
            /\ monitors' = monitors /\ flashes' = flashes
            /\ touched' = touched]_vars

C12_Witness ==
    /\ pc = "read_loop"
    /\ lastRead = "decode_error"
    /\ lastMon.path = "fast"

\* The run ended at line 178, after the failure message
TerminalFailure ==
    /\ pc = "exited"
    /\ lastRead \notin {"serial_exception", "keyboard_interrupt"}

\* The run ended in the read loop, by an interrupt or a serial exception
LoopEnded ==
    /\ pc = "exited"
    /\ lastRead \in {"serial_exception", "keyboard_interrupt"}

\* C13 (as stated): a run that ends with the failure message, or that is
\* ended in the read loop by an interrupt or by a port failure, ends with a
\* non-zero exit status.
C13_NonZeroOnFailure ==
    (TerminalFailure \/ LoopEnded) => exitCode \notin {0, Running}

\* C13 (amended): the process ends with exit status 0 whenever it ends without
\* an uncaught exception: after the failure message of line 178 and after an
\* interrupt or a serial exception in the read loop; the status is non-zero
\* only when an exception is not caught.
C13_ZeroUnlessUncaught ==
    /\ TerminalFailure =>
          /\ exitCode = 0
          /\ (data = <<>> /\ monitors <= 1)
               \/ (lastMon.path = "final" /\ ~lastMon.opened)
    /\ LoopEnded => (exitCode = 0 /\ lastMon.opened)
    /\ (exitCode = 1) <=> (pc = "crashed")
    /\ pc = "crashed" => \E e \in stepErrs : e.handler = "uncaught"
    /\ pc \notin {"exited", "crashed"} => exitCode = Running

C13_Witness ==
    /\ TerminalFailure
    /\ exitCode = 0
    /\ data = <<>>
    /\ Len(touched) >= 15

\* C14: when the write of the store raises, the run is not aborted: the pair
\* found is still flashed and monitored.
C14_PersistFailureTolerated ==
    (\E e \in stepErrs : e.kind = "store_write") =>
        (pc # "crashed" /\ exitCode = Running)

\* C15 (as stated): every error met by a step is printed.
C15_EveryErrorPrinted ==
    \A e \in stepErrs : e.printed

\* C15 (amended): a copy failure, a missing image, a decode failure and a
\* failed open of the monitor port are each printed, and an exception that is
\* not caught prints its traceback; a failed open in the touch, a missing
\* registry key, an exception of the volume check during the registry pass,
\* and the interrupt or serial exception that ends the read loop are
\* absorbed without any output.
C15_PrintedErrors ==
    \A e \in stepErrs :
        /\ e.kind \in {"copy", "image_missing", "decode", "monitor_open",
                        "store_write"} => e.printed
        /\ e.kind \in {"port_open", "registry_unavailable",
                        "serial_exception", "keyboard_interrupt"} => ~e.printed
        /\ e.kind = "label_query" => (e.printed <=> pc = "crashed")
        /\ e.kind \in {"copy", "image_missing", "decode", "monitor_open",
                        "store_write", "port_open", "registry_unavailable",
                        "serial_exception", "keyboard_interrupt",
                        "label_query"}

C15_Witness ==
    /\ pc = "main_revalidate"
    /\ \E e \in stepErrs : e.kind = "monitor_open" /\ e.printed
    /\ lastFlash.result = "copy_error"

\* The labels of the list handed to find_rpi_rp2_drive that equal the target
Matches == {k \in DOMAIN mounted : mounted[k] = "RPI-RP2"}

\* C16: a pass of wait_for_device_reconnect that does not find the volume
\* touches a sequence of ports fixed by the registry content and the range:
\* every registry entry in order, then COM1..COM15; two such passes touch the
\* same sequence.
C16_PassSequenceFixed ==
    (WaiterReturned /\ data = <<>>) => WaiterTouched = Reg \o RangePorts

\* C17: for every list of mounted volumes holding the target label,
\* find_rpi_rp2_drive returns the device of the first volume whose label is
\* exactly the target label, and it changes nothing else.
C17_FirstExactMatch ==
    (pc = "find_done" /\ Matches # {}) =>
        /\ lastFind = DeviceNames[CHOOSE k \in Matches :
                                    \A j \in Matches : k <= j]
        /\ partition = None /\ data = <<>> /\ touched = <<>>

\* C18: for every list of mounted volumes in which no label is the target
\* label, a list holding a volume whose label query fails included,
\* find_rpi_rp2_drive returns None and does not raise.
C18_NotFoundNeverRaises ==
    (pc = "find_done" /\ Matches = {}) => lastFind = None

\* The program is about to call read_com
MonitorNext == pc \in {"main_fast_monitor", "main_final_monitor"}

\* C19: every start of a monitor (read_com) directly follows a flash attempt
\* (copyFile) of the same run on a volume that the last volume check saw
\* with the target label; no port is touched and no monitor is started
\* between that flash attempt and the monitor start.
C19_MonitorFollowsFlash ==
    [][ /\ monitors' # monitors =>
             /\ MonitorNext
             /\ touched' = touched
             /\ flashes >= 1
             /\ lastFlash.partition = partition
             /\ partition \notin {None, Raise}
             /\ lastFind = partition
             /\ lastSeen # <<>> /\ Last(lastSeen) = "RPI-RP2"
        /\ (MonitorNext' /\ pc' # pc) =>
             /\ flashes' = flashes + 1
             /\ touched' = touched
             /\ monitors' = monitors ]_vars

C19_Witness ==
    /\ pc = "read_loop"
    /\ lastMon.path = "final"
    /\ touched # <<>>
    /\ flashes >= 1

\* C20: a run makes at most two flash attempts (copyFile calls); the second
\* one is made only when the startup volume check found the volume and the
\* fast-path monitor was skipped for want of a stored port or returned
\* without entering its read loop; a run whose startup volume check found
\* nothing makes at most one.
C20_AtMostTwoFlashes ==
    [][ /\ flashes' <= 2
        /\ startup' = "not_found" => flashes' <= 1
        /\ flashes' = 2 => startup' = "found"
        /\ (flashes = 1 /\ flashes' = 2) =>
             \/ lastKnownPort = None /\ monitors = 0
             \/ /\ lastKnownPort # None
                /\ monitors = 1
                /\ lastMon.path = "fast"
                /\ ~lastMon.opened
                /\ lastRead = "none" ]_vars

C20_Witness ==
    /\ flashes = 2
    /\ lastKnownPort # None
    /\ lastMon.path = "fast"
    /\ ~lastMon.opened

====
